---- MODULE Spec2Model ----
(***************************************************************************)
(* go-notes: a command-line note manager over one SQLite table.            *)
(*                                                                         *)
(* The model has two layers, as the repository has:                        *)
(*   - the sqlite Storage (schema, trigger, the six operations and the     *)
(*     parameter validation), modelled over the rows of the notes table;   *)
(*   - the CLI commands and main, which parse positional arguments, call   *)
(*     one storage operation, print and exit.                              *)
(* Strings are sequences of runs of one character, so that length,         *)
(* substring and LIKE matching are computed and not assumed, and a string  *)
(* of 256001 bytes is a value of ordinary size.                            *)
(***************************************************************************)
EXTENDS Integers, Sequences, FiniteSets, TLC

\* ---------------------------------------------------------------- bounds
\* Largest rowid the model lets the table assign.
MaxId == 2
\* Largest reading of the wall clock (CURRENT_TIMESTAMP, in seconds).
MaxClock == 2

\* ------------------------------------------------------ program constants
maxStringLength == 256000

\* ----------------------------------------------------------- Go's int type
\* A Go int (64 bits wide on the build targets) and an SQLite rowid are kept
\* as two decimal limbs, value = hi * 10^9 + lo with 0 <= lo < 10^9, so that
\* numbers beyond 2^31 - 1 keep their value.
Limb == 1000 * 1000 * 1000
I(n) == [hi |-> 0, lo |-> n]
Lt(a, b) == a.hi < b.hi \/ (a.hi = b.hi /\ a.lo < b.lo)
Le(a, b) == a = b \/ Lt(a, b)
Inc(a) == IF a.lo = Limb - 1 THEN [hi |-> a.hi + 1, lo |-> 0]
          ELSE [hi |-> a.hi, lo |-> a.lo + 1]
Neg(a) == IF a.lo = 0 THEN [hi |-> 0 - a.hi, lo |-> 0]
          ELSE [hi |-> 0 - a.hi - 1, lo |-> Limb - a.lo]
\* math.MaxInt32 = 2147483647
MaxInt32 == [hi |-> 2, lo |-> 147483647]

\* ------------------------------------------------------------ error values
invalidNum == "invalid number"
invalidParamLength == "invalid param length"
ErrNoRows == "sql: no rows in result set"
nil == "nil"

\* The spec's error kinds, in terms of the code's error values.
InvalidParameter == {invalidNum, invalidParamLength}
NotFound == ErrNoRows

\* ----------------------------------------------------------------- strings
\* A string is the sequence of its runs: [ch |-> c, n |-> k] is k >= 1 copies
\* of the character c, and neighbouring runs have different characters.
Empty == << >>
Repeat(c, k) == <<[ch |-> c, n |-> k]>>
Cons(c, s) ==
  IF s /= << >> /\ s[1].ch = c
  THEN <<[ch |-> c, n |-> s[1].n + 1]>> \o Tail(s)
  ELSE <<[ch |-> c, n |-> 1]>> \o s

\* The string with the given characters.
RECURSIVE Str(_)
Str(chars) == IF chars = << >> THEN Empty ELSE Cons(Head(chars), Str(Tail(chars)))

\* len(s)
RECURSIVE StrLen(_)
StrLen(s) == IF s = << >> THEN 0 ELSE s[1].n + StrLen(Tail(s))

\* s[0] and s[1:]
StrHead(s) == s[1].ch
StrTail(s) ==
  IF s[1].n = 1 THEN Tail(s)
  ELSE <<[ch |-> s[1].ch, n |-> s[1].n - 1]>> \o Tail(s)

\* a + b
Concat(a, b) ==
  IF a = << >> THEN b
  ELSE IF b = << >> THEN a
  ELSE IF a[Len(a)].ch = b[1].ch
       THEN SubSeq(a, 1, Len(a) - 1)
            \o <<[ch |-> b[1].ch, n |-> a[Len(a)].n + b[1].n]>> \o Tail(b)
  ELSE a \o b

\* ------------------------------------------------------------------ inputs
TooLong == Repeat("a", maxStringLength + 1)
Longest == Repeat("a", maxStringLength)
\* Titles and contents handed to the storage operations.
TitleInputs == {Empty, Str(<<"B">>), TooLong}
ContentInputs == {Empty, Str(<<"a">>), Str(<<"B", "_">>), TooLong}
\* Keywords handed to the search.
KeywordInputs ==
  {Empty, Str(<<"a">>), Str(<<"A">>), Str(<<"B">>), Str(<<"_">>), Str(<<"%">>),
   Longest, TooLong}
\* Ids handed to the storage operations.
IdInputs == {I(n) : n \in 0..MaxId} \cup {MaxInt32, Inc(MaxInt32)}

\* The zero value of entities.Note.
ZeroNote ==
  [note_id |-> I(0), title |-> Empty, content |-> Empty,
   created_at |-> 0, last_edited_at |-> 0]

VARIABLES
  notes,    \* the rows of table notes in the database file
  clock,    \* the reading of CURRENT_TIMESTAMP
  issued,   \* history: the ids successful NewNote calls have returned
  last,     \* the storage call made last, with its parameters and results
  proc      \* the process run last: command, arguments, output, exit code

vars == <<notes, clock, issued, last, proc>>

\* ------------------------------------------------------------- validation
IntParam(v) == [kind |-> "int", v |-> v]
StrParam(v) == [kind |-> "string", v |-> v]

\* validateSQLParam with the length test off by one (>= for >).
RECURSIVE validateSQLParamOffByOne(_)
validateSQLParamOffByOne(params) ==
  IF params = << >> THEN nil
  ELSE LET p == Head(params) IN
       IF p.kind = "int" /\ (Lt(p.v, I(1)) \/ Lt(MaxInt32, p.v)) THEN invalidNum
       ELSE IF p.kind = "string" /\ (StrLen(p.v) < 1 \/ StrLen(p.v) >= maxStringLength)
            THEN invalidParamLength
       ELSE validateSQLParamOffByOne(Tail(params))

RECURSIVE validateSQLParam(_)
validateSQLParam(params) ==
  IF params = << >> THEN nil
  ELSE LET p == Head(params) IN
       IF p.kind = "int" /\ (Lt(p.v, I(1)) \/ Lt(MaxInt32, p.v)) THEN invalidNum
       ELSE IF p.kind = "string" /\ (StrLen(p.v) < 1 \/ StrLen(p.v) > maxStringLength)
            THEN invalidParamLength
       ELSE validateSQLParam(Tail(params))

\* ------------------------------------------------------------ table notes
\* note_id INTEGER PRIMARY KEY without AUTOINCREMENT: the rowid of a new row
\* is one more than the largest rowid in the table, 1 on an empty table.
Max(S) == CHOOSE m \in S : \A x \in S : Le(x, m)

NextRowid(tbl) ==
  IF tbl = {} THEN I(1) ELSE Inc(Max({r.note_id : r \in tbl}))

\* InsertRow with the two values bound in the wrong order.
InsertRowSwapped(tbl, now, title, content) ==
  tbl \cup {[note_id |-> NextRowid(tbl), title |-> content, content |-> title,
             created_at |-> now, last_edited_at |-> now]}

\* INSERT INTO notes (title, content): both timestamps default to the
\* CURRENT_TIMESTAMP of the statement.
InsertRow(tbl, now, title, content) ==
  tbl \cup {[note_id |-> NextRowid(tbl), title |-> title, content |-> content,
             created_at |-> now, last_edited_at |-> now]}

\* The schema without the trigger.
update_last_edited_at_missing(tbl, now, oldId) == tbl

\* Trigger update_last_edited_at, AFTER UPDATE FOR EACH ROW.
update_last_edited_at(tbl, now, oldId) ==
  {IF r.note_id = oldId THEN [r EXCEPT !.last_edited_at = now] ELSE r : r \in tbl}

\* UpdateRows with the statement setting the title column (SET title = ?).
UpdateRowsSetTitle(tbl, now, id, content) ==
  LET hit == {r \in tbl : r.note_id = id}
      upd == {IF r.note_id = id THEN [r EXCEPT !.title = content] ELSE r : r \in tbl}
  IN IF hit = {} THEN tbl ELSE update_last_edited_at(upd, now, id)

\* UPDATE notes SET content = ? WHERE note_id = ?, with the trigger fired for
\* each row the statement updated.
UpdateRows(tbl, now, id, content) ==
  LET hit == {r \in tbl : r.note_id = id}
      upd == {IF r.note_id = id THEN [r EXCEPT !.content = content] ELSE r : r \in tbl}
  IN IF hit = {} THEN tbl ELSE update_last_edited_at(upd, now, id)

\* The rows of a result set, in rowid order.
RECURSIVE Rows(_)
Rows(S) ==
  IF S = {} THEN << >>
  ELSE LET r == CHOOSE x \in S : \A y \in S : Le(x.note_id, y.note_id)
       IN <<r>> \o Rows(S \ {r})

\* --------------------------------------------------------------- SQL LIKE
\* SQLite's LIKE: '%' matches any run of characters, '_' any one character,
\* every other character matches itself with ASCII letter case ignored.
Upper(c) ==
  CASE c = "a" -> "A"
    [] c = "b" -> "B"
    [] OTHER -> c

RECURSIVE Like(_, _)
Like(pattern, s) ==
  IF pattern = Empty THEN s = Empty
  ELSE IF StrHead(pattern) = "%"
       THEN \/ Like(StrTail(pattern), s)
            \/ s /= Empty /\ Like(pattern, StrTail(s))
  ELSE IF s = Empty THEN FALSE
  ELSE IF StrHead(pattern) = "_" THEN Like(StrTail(pattern), StrTail(s))
  ELSE /\ Upper(StrHead(pattern)) = Upper(StrHead(s))
       /\ Like(StrTail(pattern), StrTail(s))

\* ------------------------------------------------------ storage operations
\* Each operation is a function of the table and the clock; it yields the
\* table afterwards and what the Go method returns.
NewNote(tbl, now, noteTitle, content) ==
  LET err == validateSQLParam(<<StrParam(noteTitle), StrParam(content)>>) IN
  IF err /= nil THEN [tbl |-> tbl, id |-> I(0), err |-> err]
  ELSE [tbl |-> InsertRow(tbl, now, noteTitle, content),
        id |-> NextRowid(tbl), err |-> nil]

\* DeleteNote with a DELETE that has lost its WHERE clause.
DeleteNoteNoWhere(tbl, id) ==
  LET err == validateSQLParam(<<IntParam(id)>>)
  IN IF err /= nil THEN [tbl |-> tbl, id |-> I(0), err |-> err]
     ELSE IF Cardinality(tbl) = 0 THEN [tbl |-> tbl, id |-> I(0), err |-> ErrNoRows]
     ELSE [tbl |-> {}, id |-> id, err |-> nil]

DeleteNote(tbl, id) ==
  LET err == validateSQLParam(<<IntParam(id)>>)
      hit == {r \in tbl : r.note_id = id}
  IN IF err /= nil THEN [tbl |-> tbl, id |-> I(0), err |-> err]
     ELSE IF Cardinality(hit) = 0 THEN [tbl |-> tbl, id |-> I(0), err |-> ErrNoRows]
     ELSE [tbl |-> tbl \ hit, id |-> id, err |-> nil]

\* SetNoteContent without the test of the rows affected.
SetNoteContentNoRowsCheck(tbl, now, noteID, content) ==
  LET err == validateSQLParam(<<IntParam(noteID), StrParam(content)>>)
  IN IF err /= nil THEN [tbl |-> tbl, err |-> err]
     ELSE [tbl |-> UpdateRows(tbl, now, noteID, content), err |-> nil]

SetNoteContent(tbl, now, noteID, content) ==
  LET err == validateSQLParam(<<IntParam(noteID), StrParam(content)>>)
      hit == {r \in tbl : r.note_id = noteID}
  IN IF err /= nil THEN [tbl |-> tbl, err |-> err]
     ELSE IF Cardinality(hit) = 0 THEN [tbl |-> tbl, err |-> ErrNoRows]
     ELSE [tbl |-> UpdateRows(tbl, now, noteID, content), err |-> nil]

SearchNotesByKeyword(tbl, keyword) ==
  LET err == validateSQLParam(<<StrParam(keyword)>>)
      keywordPattern == Concat(Concat(Str(<<"%">>), keyword), Str(<<"%">>))
  IN IF err /= nil THEN [notes |-> << >>, err |-> err]
     ELSE [notes |-> Rows({r \in tbl : \/ Like(keywordPattern, r.title)
                                       \/ Like(keywordPattern, r.content)}),
           err |-> nil]

GetNoteByID(tbl, noteID) ==
  LET err == validateSQLParam(<<IntParam(noteID)>>)
      hit == Rows({r \in tbl : r.note_id = noteID})
  IN IF err /= nil THEN [note |-> ZeroNote, err |-> err]
     ELSE IF hit = << >> THEN [note |-> ZeroNote, err |-> ErrNoRows]
     ELSE [note |-> hit[1], err |-> nil]

\* GetAllNotes with a loop that drops the first row.
GetAllNotesSkipFirst(tbl) ==
  [notes |-> IF tbl = {} THEN << >> ELSE Tail(Rows(tbl)), err |-> nil]

GetAllNotes(tbl) == [notes |-> Rows(tbl), err |-> nil]

\* ------------------------------------------------- calls of the operations
\* The record of a storage call: the method, its parameters (the unused ones
\* at their zero values) and what it returned.
Call(op, id, title, content, ret, err, note, found) ==
  [op |-> op, id |-> id, title |-> title, content |-> content,
   ret |-> ret, err |-> err, note |-> note, notes |-> found]

NoCall == Call("none", I(0), Empty, Empty, I(0), nil, ZeroNote, << >>)

\* What each method leaves behind: the table afterwards and the call record.
DoNewNote(tbl, now, title, content) ==
  LET r == NewNote(tbl, now, title, content) IN
  [tbl |-> r.tbl,
   call |-> Call("NewNote", I(0), title, content, r.id, r.err, ZeroNote, << >>)]

DoDeleteNote(tbl, id) ==
  LET r == DeleteNote(tbl, id) IN
  [tbl |-> r.tbl,
   call |-> Call("DeleteNote", id, Empty, Empty, r.id, r.err, ZeroNote, << >>)]

DoSetNoteContent(tbl, now, id, content) ==
  LET r == SetNoteContent(tbl, now, id, content) IN
  [tbl |-> r.tbl,
   call |-> Call("SetNoteContent", id, Empty, content, I(0), r.err, ZeroNote, << >>)]

DoGetNoteByID(tbl, id) ==
  LET r == GetNoteByID(tbl, id) IN
  [tbl |-> tbl,
   call |-> Call("GetNoteByID", id, Empty, Empty, I(0), r.err, r.note, << >>)]

DoGetAllNotes(tbl) ==
  LET r == GetAllNotes(tbl) IN
  [tbl |-> tbl,
   call |-> Call("GetAllNotes", I(0), Empty, Empty, I(0), r.err, ZeroNote, r.notes)]

DoSearchNotesByKeyword(tbl, keyword) ==
  LET r == SearchNotesByKeyword(tbl, keyword) IN
  [tbl |-> tbl,
   call |-> Call("SearchNotesByKeyword", I(0), Empty, keyword, I(0), r.err, ZeroNote, r.notes)]

\* ------------------------------------------------------------- strconv.Atoi
ErrSyntax == "strconv.Atoi: parsing: invalid syntax"
ErrRange == "strconv.Atoi: parsing: value out of range"

Digit(c) ==
  CASE c = "0" -> 0 [] c = "1" -> 1 [] c = "2" -> 2 [] c = "3" -> 3 [] c = "4" -> 4
    [] c = "5" -> 5 [] c = "6" -> 6 [] c = "7" -> 7 [] c = "8" -> 8 [] c = "9" -> 9
    [] OTHER -> 10

\* Every byte of s is a decimal digit.
RECURSIVE AllDigits(_)
AllDigits(s) == s = Empty \/ (Digit(s[1].ch) <= 9 /\ AllDigits(Tail(s)))

\* The value of at most nine decimal digits, n = n*10 + ch from the left.
RECURSIVE DigitsValue(_, _)
DigitsValue(s, n) ==
  IF s = Empty THEN n ELSE DigitsValue(StrTail(s), n * 10 + Digit(StrHead(s)))

\* The first k bytes of s, and s without them.
RECURSIVE Take(_, _)
Take(s, k) == IF k = 0 \/ s = Empty THEN Empty ELSE Cons(StrHead(s), Take(StrTail(s), k - 1))
RECURSIVE Drop(_, _)
Drop(s, k) == IF k = 0 \/ s = Empty THEN s ELSE Drop(StrTail(s), k - 1)

\* Atoi's fast path takes strings of 1 to 18 bytes: an optional sign, then
\* digits only. Longer strings go to ParseInt; those of them it accepts
\* (19-digit values, zero-padded numbers) are beyond the arguments drawn here.
Atoi(s) ==
  LET sLen == StrLen(s)
      signed == sLen > 0 /\ StrHead(s) \in {"-", "+"}
      digits == IF signed THEN StrTail(s) ELSE s
      k == StrLen(digits)
      n == [hi |-> DigitsValue(Take(digits, k - 9), 0),
            lo |-> DigitsValue(Drop(digits, IF k > 9 THEN k - 9 ELSE 0), 0)]
  IN IF 0 < sLen /\ sLen < 19
     THEN IF k < 1 \/ ~AllDigits(digits) THEN [n |-> I(0), err |-> ErrSyntax]
          ELSE [n |-> IF StrHead(s) = "-" THEN Neg(n) ELSE n, err |-> nil]
     ELSE IF k < 1 \/ ~AllDigits(digits) THEN [n |-> I(0), err |-> ErrSyntax]
     ELSE [n |-> I(0), err |-> ErrRange]

\* ------------------------------------------------------------ the commands
\* c.Args().First() and c.Args().Get(n): the empty string when the argument
\* is not there.
Get(args, n) == IF Len(args) > n THEN args[n + 1] ELSE Empty
First(args) == Get(args, 0)

\* A line written to standard output: the format and what it formats.
Line(fmt, err, id, note, str) ==
  [fmt |-> fmt, err |-> err, id |-> id, note |-> note, str |-> str]
Println(text) == Line(text, << >>, I(0), ZeroNote, Empty)
PrintErr(fmt, err) == Line(fmt, err, I(0), ZeroNote, Empty)
PrintId(fmt, id) == Line(fmt, << >>, id, ZeroNote, Empty)
PrintNote(fmt, note) == Line(fmt, << >>, I(0), note, Empty)
PrintStr(fmt, str) == Line(fmt, << >>, I(0), ZeroNote, str)

RECURSIVE PrintNotes(_, _)
PrintNotes(fmt, found) ==
  IF found = << >> THEN << >>
  ELSE <<PrintNote(fmt, Head(found))>> \o PrintNotes(fmt, Tail(found))

\* A Go error is the chain of its messages, outermost first; << >> is nil.
Errorf(fmt, cause) == <<fmt, cause>>

\* What a command's Action leaves behind: the table, the storage call it made
\* (NoCall when it made none), its output and the error it returns.
Outcome(tbl, call, stdout, err) ==
  [tbl |-> tbl, call |-> call, stdout |-> stdout, err |-> err]

\* updateNoteContentCommand looking for both arguments before it parses the id.
updateNoteContentCommandArgsFirst(tbl, now, args) ==
  LET noteIDStr == First(args)
      a == Atoi(noteIDStr)
      content == Get(args, 1)
      r == DoSetNoteContent(tbl, now, a.n, content)
  IN IF noteIDStr = Empty
     THEN Outcome(tbl, NoCall, <<Println("Please provide ID of note to update.")>>, << >>)
     ELSE IF content = Empty
     THEN Outcome(tbl, NoCall, <<Println("Please provide content to update note.")>>, << >>)
     ELSE IF a.err /= nil
     THEN Outcome(tbl, NoCall, << >>, Errorf("invalid note ID: %w", a.err))
     ELSE IF r.call.err /= nil
     THEN Outcome(r.tbl, r.call, << >>, Errorf("updating note: %w", r.call.err))
     ELSE Outcome(r.tbl, r.call, <<PrintId("Updated note with ID %d\n", a.n)>>, << >>)

updateNoteContentCommand(tbl, now, args) ==
  LET noteIDStr == First(args)
      a == Atoi(noteIDStr)
      content == Get(args, 1)
      r == DoSetNoteContent(tbl, now, a.n, content)
  IN IF noteIDStr = Empty
     THEN Outcome(tbl, NoCall, <<Println("Please provide ID of note to update.")>>, << >>)
     ELSE IF a.err /= nil
     THEN Outcome(tbl, NoCall, << >>, Errorf("invalid note ID: %w", a.err))
     ELSE IF content = Empty
     THEN Outcome(tbl, NoCall, <<Println("Please provide content to update note.")>>, << >>)
     ELSE IF r.call.err /= nil
     THEN Outcome(r.tbl, r.call, << >>, Errorf("updating note: %w", r.call.err))
     ELSE Outcome(r.tbl, r.call, <<PrintId("Updated note with ID %d\n", a.n)>>, << >>)

searchNotesCommand(tbl, args) ==
  LET keyword == First(args)
      r == DoSearchNotesByKeyword(tbl, keyword)
  IN IF keyword = Empty
     THEN Outcome(tbl, NoCall,
                  <<Println("Please provide a keyword to search for notes.")>>, << >>)
     ELSE IF r.call.err /= nil
     THEN Outcome(r.tbl, r.call,
                  <<PrintErr("Error searching notes: %v\n", <<r.call.err>>)>>,
                  <<r.call.err>>)
     ELSE IF Len(r.call.notes) = 0
     THEN Outcome(r.tbl, r.call,
                  <<PrintStr("No notes found for keyword: %s\n", keyword)>>, << >>)
     ELSE Outcome(r.tbl, r.call,
                  <<PrintStr("Notes found for keyword '%s':\n", keyword)>>
                  \o PrintNotes("ID: %d, Title: %s, Content: %s, CreatedAt: %s, LastEditedAt: %s\n",
                                r.call.notes),
                  << >>)

getNoteByIDCommand(tbl, args) ==
  LET noteIDStr == First(args)
      a == Atoi(noteIDStr)
      r == DoGetNoteByID(tbl, a.n)
  IN IF noteIDStr = Empty
     THEN Outcome(tbl, NoCall, <<Println("Please provide ID of note to retrieve.")>>, << >>)
     ELSE IF a.err /= nil
     THEN Outcome(tbl, NoCall, << >>, Errorf("invalid note ID: %w", a.err))
     ELSE IF r.call.err /= nil
     THEN Outcome(r.tbl, r.call, << >>, Errorf("retrieving note: %w", r.call.err))
     ELSE Outcome(r.tbl, r.call,
                  <<PrintNote("Note ID: %d\nTitle: %s\nContent: %s\nCreatedAt: %s\nLastEditedAt: %s\n",
                              r.call.note)>>,
                  << >>)

listNotesCommand(tbl) ==
  LET r == DoGetAllNotes(tbl)
  IN IF r.call.err /= nil
     THEN Outcome(r.tbl, r.call,
                  <<PrintErr("Error listing notes: %v\n", <<r.call.err>>)>>,
                  <<r.call.err>>)
     ELSE Outcome(r.tbl, r.call,
                  <<Println("List of notes:")>>
                  \o PrintNotes("ID: %d, Title: %s, CreatedAt: %s, LastEditedAt: %s\n",
                                r.call.notes),
                  << >>)

\* deleteNoteCommand treating a missing id as the other commands do.
deleteNoteCommandPrompt(tbl, args) ==
  LET noteIDStr == First(args)
      a == Atoi(noteIDStr)
      r == DoDeleteNote(tbl, a.n)
  IN IF noteIDStr = Empty
     THEN Outcome(tbl, NoCall, <<Println("Please provide ID of note to delete.")>>, << >>)
     ELSE IF a.err /= nil
     THEN Outcome(tbl, NoCall, << >>, Errorf("invalid note ID: %w", a.err))
     ELSE IF r.call.err /= nil
     THEN Outcome(r.tbl, r.call, << >>, Errorf("Error deleting note: %v\n", r.call.err))
     ELSE Outcome(r.tbl, r.call, <<PrintId("Deleted note with ID %d\n", r.call.ret)>>, << >>)

deleteNoteCommand(tbl, args) ==
  LET noteIDStr == First(args)
      a == Atoi(noteIDStr)
      r == DoDeleteNote(tbl, a.n)
  IN IF noteIDStr = Empty
     THEN Outcome(tbl, NoCall, << >>, <<"please provide ID of note to delete">>)
     ELSE IF a.err /= nil
     THEN Outcome(tbl, NoCall, << >>, Errorf("invalid note ID: %w", a.err))
     ELSE IF r.call.err /= nil
     THEN Outcome(r.tbl, r.call, << >>, Errorf("Error deleting note: %v\n", r.call.err))
     ELSE Outcome(r.tbl, r.call, <<PrintId("Deleted note with ID %d\n", r.call.ret)>>, << >>)

newNoteCommand(tbl, now, args) ==
  LET title == First(args)
      content == Get(args, 1)
      r == DoNewNote(tbl, now, title, content)
  IN IF title = Empty
     THEN Outcome(tbl, NoCall, <<Println("Please provide a title for new note.")>>, << >>)
     ELSE IF content = Empty
     THEN Outcome(tbl, NoCall, <<Println("Please provide content for new note.")>>, << >>)
     ELSE IF r.call.err /= nil
     THEN Outcome(r.tbl, r.call, << >>, Errorf("creating new note: %v\n", r.call.err))
     ELSE Outcome(r.tbl, r.call,
                  <<PrintId("Created a new note with ID %d\n", r.call.ret)>>, << >>)

\* app.Run(os.Args): the command named by the first argument runs on the rest.
\* An error an Action returns is no ExitCoder, so Run hands it back to main.
Commands == {"new", "delete", "get", "list", "update", "search"}

Run(tbl, now, cmd, args) ==
  CASE cmd = "new" -> newNoteCommand(tbl, now, args)
    [] cmd = "delete" -> deleteNoteCommand(tbl, args)
    [] cmd = "get" -> getNoteByIDCommand(tbl, args)
    [] cmd = "list" -> listNotesCommand(tbl)
    [] cmd = "update" -> updateNoteContentCommand(tbl, now, args)
    [] cmd = "search" -> searchNotesCommand(tbl, args)

\* Arguments given on the command line.
IdArgs == {Str(<<"1">>), Str(<<"2">>), Str(<<"0">>), Str(<<"x">>),
           Str(<<"2", "1", "4", "7", "4", "8", "3", "6", "4", "8">>)}
TextArgs == {Str(<<"a">>)}

ArgsOf(cmd) ==
  CASE cmd = "new" ->
         {<< >>} \cup {<<t>> : t \in TextArgs}
         \cup {<<t, c>> : t \in TextArgs \cup {Empty}, c \in TextArgs}
    [] cmd \in {"delete", "get"} -> {<< >>} \cup {<<i>> : i \in IdArgs}
    [] cmd = "list" -> {<< >>}
    [] cmd = "update" ->
         {<< >>} \cup {<<i>> : i \in IdArgs}
         \cup {<<i, c>> : i \in IdArgs \cup {Empty}, c \in TextArgs}
    [] cmd = "search" -> {<< >>} \cup {<<k>> : k \in TextArgs}

\* The process: what ran, what it wrote to standard output, the error app.Run
\* returned and the exit code.
Proc(cmd, args, stdout, err, exit) ==
  [cmd |-> cmd, args |-> args, stdout |-> stdout, err |-> err, exit |-> exit]

\* No process is running the command line: the storage is called directly,
\* as the package's tests do.
NoProc == Proc("none", << >>, << >>, << >>, 0)

\* The table, the call record and the history after a storage call.
Commit(r) ==
  /\ \A row \in r.tbl : Le(row.note_id, I(MaxId))
  /\ notes' = r.tbl
  /\ last' = r.call
  /\ issued' = IF r.call.op = "NewNote" /\ r.call.err = nil
               THEN issued \cup {r.call.ret} ELSE issued
  /\ UNCHANGED clock

CallNewNote(title, content) ==
  /\ Commit(DoNewNote(notes, clock, title, content))
  /\ proc' = NoProc

CallDeleteNote(id) ==
  /\ Commit(DoDeleteNote(notes, id))
  /\ proc' = NoProc

CallSetNoteContent(id, content) ==
  /\ Commit(DoSetNoteContent(notes, clock, id, content))
  /\ proc' = NoProc

CallGetNoteByID(id) ==
  /\ Commit(DoGetNoteByID(notes, id))
  /\ proc' = NoProc

CallGetAllNotes ==
  /\ Commit(DoGetAllNotes(notes))
  /\ proc' = NoProc

CallSearchNotesByKeyword(keyword) ==
  /\ Commit(DoSearchNotesByKeyword(notes, keyword))
  /\ proc' = NoProc

\* A second passes on the wall clock, which is taken not to run backwards.
Tick ==
  /\ clock < MaxClock
  /\ clock' = clock + 1
  /\ UNCHANGED <<notes, issued, last, proc>>

\* One run of the program. sqlite.New fails when the database file cannot be
\* opened or the schema cannot be created (newErr): main prints and exits with
\* 1 before the command line is looked at. Otherwise the command runs, main
\* prints the error it returned, if any, and returns, which ends the process
\* with code 0. (The deferred Close is taken to succeed.)
main(cmd, args, newErr) ==
  IF newErr
  THEN /\ proc' = Proc("none", << >>,
                       <<PrintErr("Error initializing storage: %v\n",
                                  <<"unable to open database file">>)>>,
                       << >>, 1)
       /\ last' = NoCall
       /\ UNCHANGED <<notes, clock, issued>>
  ELSE LET r == Run(notes, clock, cmd, args) IN
       /\ Commit(r)
       /\ proc' = Proc(cmd, args,
                       r.stdout \o (IF r.err /= << >>
                                    THEN <<PrintErr("Error: %v\n", r.err)>> ELSE << >>),
                       r.err, 0)

Init ==
  /\ notes = {}
  /\ clock = 1
  /\ issued = {}
  /\ last = NoCall
  /\ proc = NoProc

Next ==
  \/ \E t \in TitleInputs, c \in ContentInputs : CallNewNote(t, c)
  \/ \E id \in IdInputs : CallDeleteNote(id)
  \/ \E id \in IdInputs, c \in ContentInputs : CallSetNoteContent(id, c)
  \/ \E id \in IdInputs : CallGetNoteByID(id)
  \/ CallGetAllNotes
  \/ \E k \in KeywordInputs : CallSearchNotesByKeyword(k)
  \/ Tick

\* The storage, called directly.
Spec == Init /\ [][Next]_vars

CliNext ==
  \/ \E cmd \in Commands : \E args \in ArgsOf(cmd), newErr \in BOOLEAN :
        main(cmd, args, newErr)
  \/ Tick

\* The program, run from the command line any number of times.
CliSpec == Init /\ [][CliNext]_vars

\* ================================================================ properties
\* The rows a result holds, as a set.
Elems(found) == {found[i] : i \in 1..Len(found)}

\* k occurs in s as a substring, byte for byte.
RECURSIVE IsPrefix(_, _)
IsPrefix(k, s) ==
  \/ k = Empty
  \/ s /= Empty /\ StrHead(k) = StrHead(s) /\ IsPrefix(StrTail(k), StrTail(s))
RECURSIVE Contains(_, _)
Contains(s, k) == IsPrefix(k, s) \/ (s /= Empty /\ Contains(StrTail(s), k))

\* The ranges the validation rule allows.
IdInRange(id) == Le(I(1), id) /\ Le(id, [hi |-> 2, lo |-> 147483647])
LenInRange(str) == 1 <= StrLen(str) /\ StrLen(str) <= 256000

\* A step that is the storage call recorded in last'.
CallStep == last' /= last \/ notes' /= notes

\* C1: a successful CreateNote(T, C) returns a positive id, and GetByID of
\* that id right afterwards returns the note with that id, title T, content C
\* and createdAt equal to lastEditedAt.
C1_CreateThenGet ==
  (last.op = "NewNote" /\ last.err = nil) =>
    LET g == GetNoteByID(notes, last.ret) IN
      /\ Lt(I(0), last.ret)
      /\ g.err = nil
      /\ g.note.note_id = last.ret
      /\ g.note.title = last.title
      /\ g.note.content = last.content
      /\ g.note.created_at = g.note.last_edited_at

\* A note was created next to an older note that has been edited since.
C1_Witness ==
  /\ last.op = "NewNote" /\ last.err = nil
  /\ \E r \in notes : r.note_id /= last.ret /\ r.last_edited_at > r.created_at

\* C2: no CreateNote returns an id that an earlier CreateNote returned.
C2_IdNeverReused ==
  [][(last'.op = "NewNote" /\ last'.err = nil /\ CallStep) => last'.ret \notin issued]_vars

\* C3, as claimed: a successful UpdateContent(id, C2) makes the content C2,
\* makes lastEditedAt strictly greater than before and leaves createdAt alone.
C3_StrictlyAdvances ==
  [][(last'.op = "SetNoteContent" /\ last'.err = nil /\ CallStep) =>
       \A r \in notes : r.note_id = last'.id =>
         LET g == GetNoteByID(notes', last'.id) IN
           /\ g.err = nil
           /\ g.note.content = last'.content
           /\ g.note.last_edited_at > r.last_edited_at
           /\ g.note.created_at = r.created_at]_vars

\* C3, amended: a successful UpdateContent(id, C2) makes the content C2, sets
\* lastEditedAt to the clock reading of the update, which is above the value
\* before exactly when the clock has moved on since that value was set, and
\* leaves createdAt alone.
C3_RefreshedToNow ==
  [][(last'.op = "SetNoteContent" /\ last'.err = nil /\ CallStep) =>
       /\ \E r \in notes : r.note_id = last'.id
       /\ \A r \in notes : r.note_id = last'.id =>
            LET g == GetNoteByID(notes', last'.id) IN
              /\ g.err = nil
              /\ g.note.content = last'.content
              /\ g.note.last_edited_at = clock
              /\ (g.note.last_edited_at > r.last_edited_at <=> clock > r.last_edited_at)
              /\ g.note.created_at = r.created_at]_vars

\* A note was updated, and its lastEditedAt is past its createdAt.
C3_Witness ==
  /\ last.op = "SetNoteContent" /\ last.err = nil
  /\ \E r \in notes : /\ r.note_id = last.id
                      /\ r.content = last.content
                      /\ r.last_edited_at > r.created_at

\* C4: SearchByKeyword(k) returns exactly the notes whose title or content
\* contains k as a literal, case-sensitive substring, without error.
C4_LiteralSubstring ==
  (last.op = "SearchNotesByKeyword" /\ LenInRange(last.content)) =>
    /\ last.err = nil
    /\ Elems(last.notes) = {r \in notes : \/ Contains(r.title, last.content)
                                          \/ Contains(r.content, last.content)}

\* The parameters of the call are outside the ranges of the validation rule.
BadParams(call) ==
  CASE call.op = "NewNote" -> ~LenInRange(call.title) \/ ~LenInRange(call.content)
    [] call.op = "DeleteNote" -> ~IdInRange(call.id)
    [] call.op = "SetNoteContent" -> ~IdInRange(call.id) \/ ~LenInRange(call.content)
    [] call.op = "GetNoteByID" -> ~IdInRange(call.id)
    [] call.op = "SearchNotesByKeyword" -> ~LenInRange(call.content)
    [] OTHER -> FALSE

\* C5: an operation fails with InvalidParameter, and leaves the notes as they
\* were, if and only if an integer parameter is outside [1, 2^31-1] or a
\* string parameter has a length outside [1, 256000].
C5_Validation ==
  [][CallStep =>
       /\ (last'.err \in InvalidParameter <=> BadParams(last'))
       /\ (last'.err \in InvalidParameter => notes' = notes)
       /\ (last'.op = "NewNote" /\ ~BadParams(last') => last'.err = nil)]_vars

\* CreateNote was refused a content of 256001 bytes on a table that has rows.
C5_Witness ==
  /\ last.op = "NewNote" /\ LenInRange(last.title)
  /\ StrLen(last.content) = 256001
  /\ last.err = invalidParamLength
  /\ notes /= {}

\* C6: a successful DeleteNote(id) returns id and removes exactly that note:
\* GetByID(id) then fails with NotFound, ListAll no longer has it, and every
\* other note is still there with its fields as they were.
C6_DeleteRemovesExactlyOne ==
  [][(last'.op = "DeleteNote" /\ last'.err = nil /\ CallStep) =>
       /\ last'.ret = last'.id
       /\ \E r \in notes : r.note_id = last'.id
       /\ GetNoteByID(notes', last'.id).err = NotFound
       /\ \A r \in Elems(GetAllNotes(notes').notes) : r.note_id /= last'.id
       /\ notes' = {r \in notes : r.note_id /= last'.id}]_vars

\* A note was deleted and another note is still stored.
C6_Witness ==
  /\ last.op = "DeleteNote" /\ last.err = nil /\ last.ret = last.id
  /\ notes /= {}

\* C7: DeleteNote, UpdateContent and GetByID with an id in the valid range
\* that no stored note has fail with NotFound and leave the notes as they were.
C7_NotFoundChangesNothing ==
  [][(/\ CallStep
      /\ last'.op \in {"DeleteNote", "SetNoteContent", "GetNoteByID"}
      /\ ~BadParams(last')
      /\ ~\E r \in notes : r.note_id = last'.id) =>
       /\ last'.err = NotFound
       /\ last'.ret = I(0)
       /\ last'.note = ZeroNote
       /\ notes' = notes]_vars

\* An update was refused for the id of a note deleted earlier, with other
\* notes stored.
C7_Witness ==
  /\ last.op = "SetNoteContent" /\ last.err = NotFound
  /\ last.id \in issued
  /\ notes /= {}

\* C8: ListAll succeeds in every state and returns the stored notes, each
\* exactly once: nothing on a fresh store, the two notes after two creations.
C8_ListAllReturnsEveryNote ==
  LET r == GetAllNotes(notes) IN
    /\ r.err = nil
    /\ Elems(r.notes) = notes
    /\ Len(r.notes) = Cardinality(notes)
    /\ \A n \in Elems(r.notes) : n.note_id \in issued
    /\ (issued = {} => r.notes = << >>)
    /\ (last.op = "GetAllNotes" => last.err = nil /\ last.notes = r.notes)

\* ListAll returned two notes.
C8_Witness ==
  /\ last.op = "GetAllNotes" /\ last.err = nil
  /\ Len(last.notes) = 2
  /\ Cardinality(Elems(last.notes)) = 2

\* A process has run.
Ran == proc /= NoProc
InitFailed == Ran /\ proc.cmd = "none"
\* The run ended in a hard error: no storage, or an error from the command.
HardError == InitFailed \/ (Ran /\ proc.err /= << >>)

\* C9: the exit code is 0 on success and on a prompt, and 1 when the storage
\* cannot be initialized or the command returns an error, and then the message
\* printed starts with "Error: ".
C9_ExitCodes ==
  Ran =>
    /\ (~HardError => proc.exit = 0)
    /\ (HardError => /\ proc.exit = 1
                     /\ proc.stdout /= << >>
                     /\ proc.stdout[Len(proc.stdout)].fmt = "Error: %v\n")

\* The id argument is there and is no decimal number.
NonNumeric(arg) == arg /= Empty /\ ~AllDigits(arg)

\* C10, as claimed: for delete and for get, a missing id is an error the
\* command returns, a non-numeric id is a parse error with no storage call
\* made, and a NotFound of the storage is returned as an error.
C10_MissingIdIsError ==
  (Ran /\ proc.cmd \in {"delete", "get"}) =>
    /\ (First(proc.args) = Empty => proc.err /= << >>)
    /\ (NonNumeric(First(proc.args)) =>
          proc.err = <<"invalid note ID: %w", ErrSyntax>> /\ last = NoCall)
    /\ (last.err = NotFound => proc.err /= << >>)

\* C10, amended: a missing id is an error the command returns for delete, and
\* a prompt with a nil error for get, with no storage call made in either; for
\* both, a non-numeric id is a parse error with no storage call made, and a
\* NotFound of the storage is returned as an error.
C10_MissingIdByCommand ==
  (Ran /\ proc.cmd \in {"delete", "get"}) =>
    /\ (First(proc.args) = Empty /\ proc.cmd = "delete" =>
          proc.err /= << >> /\ last = NoCall)
    /\ (First(proc.args) = Empty /\ proc.cmd = "get" =>
          /\ proc.err = << >>
          /\ proc.stdout = <<Println("Please provide ID of note to retrieve.")>>
          /\ last = NoCall)
    /\ (NonNumeric(First(proc.args)) =>
          proc.err = <<"invalid note ID: %w", ErrSyntax>> /\ last = NoCall)
    /\ (last.err = NotFound => proc.err /= << >>)

\* delete was run without an id on a store that has notes.
C10_Witness ==
  /\ Ran /\ proc.cmd = "delete" /\ proc.args = << >>
  /\ proc.err /= << >>
  /\ notes /= {}

\* A required positional argument of the command that ran is missing.
MissingArg ==
  CASE proc.cmd = "new" -> Get(proc.args, 0) = Empty \/ Get(proc.args, 1) = Empty
    [] proc.cmd = "update" -> Get(proc.args, 0) = Empty \/ Get(proc.args, 1) = Empty
    [] proc.cmd = "search" -> Get(proc.args, 0) = Empty
    [] OTHER -> FALSE

\* The run printed one prompt, returned no error, exited with 0 and called no
\* storage operation.
Prompted ==
  /\ Len(proc.stdout) = 1
  /\ proc.stdout[1] \in
       {Println("Please provide a title for new note."),
        Println("Please provide content for new note."),
        Println("Please provide ID of note to update."),
        Println("Please provide content to update note."),
        Println("Please provide a keyword to search for notes.")}
  /\ proc.err = << >>
  /\ proc.exit = 0
  /\ last = NoCall

\* The run made the one storage call its command maps to, on its arguments.
CalledMapped ==
  CASE proc.cmd = "new" ->
         /\ last.op = "NewNote"
         /\ last.title = Get(proc.args, 0) /\ last.content = Get(proc.args, 1)
    [] proc.cmd = "update" ->
         /\ last.op = "SetNoteContent"
         /\ last.id = Atoi(Get(proc.args, 0)).n /\ last.content = Get(proc.args, 1)
    [] proc.cmd = "search" ->
         /\ last.op = "SearchNotesByKeyword"
         /\ last.content = Get(proc.args, 0)
    [] OTHER -> FALSE

NotesWellFormed ==
  /\ \A r \in notes :
       /\ Lt(I(0), r.note_id)
       /\ r.title /= Empty
       /\ r.last_edited_at >= r.created_at
  /\ \A r1, r2 \in notes : r1.note_id = r2.note_id => r1 = r2

\* A note that is persisted before and after a step keeps its title and its
\* created_at.
TitleAndCreatedAtKept ==
  \A r1 \in notes : \A r2 \in notes' :
    r1.note_id = r2.note_id =>
      r2.title = r1.title /\ r2.created_at = r1.created_at

\* C12: in every state reached by any sequence of NewNote, SetNoteContent and
\* DeleteNote calls, successful or failed, every persisted note has a positive
\* id distinct from every other note's, a non-empty title and
\* last_edited_at >= created_at; and no step changes the title or the
\* created_at of a note that exists.
C12_NoteInvariants == []NotesWellFormed /\ [][TitleAndCreatedAtKept]_vars

\* Two notes are persisted, one of them edited after the second it was created
\* in, and the last call was a create, update or delete that failed.
C12_Witness ==
  /\ Cardinality(notes) = 2
  /\ \E r \in notes : r.last_edited_at > r.created_at
  /\ last.op \in {"NewNote", "SetNoteContent", "DeleteNote"}
  /\ last.err /= nil

====
